---------------------------- MODULE Spec2Model ----------------------------
(***************************************************************************)
(* led-indicator: the D-Bus daemon of src/led-indicator.cpp, service(),    *)
(* with its set/get handlers, the waveform function                        *)
(* get_expected_led_state() and the exception handling of main().          *)
(*                                                                         *)
(* The daemon is one thread; pc is its position in service()/main().  The  *)
(* environment is the bus (requests arriving on the connection), the OS    *)
(* (SIGINT/SIGTERM becoming pending on the signalfd, library and system    *)
(* calls of the startup and poll() failing) and the system clock.          *)
(***************************************************************************)
EXTENDS Integers, Sequences, FiniteSets, TLC

VARIABLES
    pc,                  \* position of the daemon in main()/service()
    led_action,          \* global led_action (line 39)
    exit_requested,      \* local of service() (line 102)
    expected_led_state,  \* local of the loop body (line 118)
    revents_sig,         \* fds[1].revents & POLLIN after the last poll()
    now,                 \* system clock, ms since the epoch
    pin,                 \* level of the GPIO line
    line_state,          \* "unrequested" | "requested" | "released"
    registered,          \* the object's interface is registered on the bus
    name_state,          \* "unclaimed" | "claimed" | "released"
    sigfd,               \* "none" | "open" | "closed"
    pending,             \* requests received on the connection, not yet processed
    sig_pending,         \* a blocked SIGINT/SIGTERM is pending on sigfd
    last_req,            \* the request most recently handled
    last_reply,          \* the reply sent for it
    exit_status,         \* <<>> while running, then <<the status main() returned>>
    \* history variables (observations of a mock line / bus, no code reads them)
    last_accepted,       \* argument of the last set that returned true
    writes_in_run,       \* loop writes since the action / blink half-period changed
    redundant_write,     \* some loop write re-wrote the level the line already had
    wrote,               \* the last pin update of the loop issued a write
    effects,             \* shutdown effects, in the order they happened
    failed_at,           \* the step whose failure threw, or "none"
    pin_at_exit,         \* "high" | "low": the pin when the loop was left, else "none"
    entered_loop,        \* the loop body has been entered
    drained_in_iter,     \* a request was handled in the current iteration
    prev_now,            \* time of the previous evaluation (EvalSpec)
    prev_level           \* its result (EvalSpec)

vars == <<pc, led_action, exit_requested, expected_led_state, revents_sig, now,
          pin, line_state, registered, name_state, sigfd, pending, sig_pending,
          last_req, last_reply, exit_status, last_accepted, writes_in_run,
          redundant_write, wrote, effects, failed_at, pin_at_exit, entered_loop,
          drained_in_iter, prev_now, prev_level>>

----------------------------------------------------------------------------
(* Bounds of the model *)

\* the clock stops advancing here
MaxNow == 600
\* requests queued on the connection at one time
MaxPending == 2
\* the loop-write counter saturates here
WriteCap == 2
\* largest time the waveform function is evaluated at in EvalSpec
MaxEvalTime == 1600

(* Program constants *)

\* default argument of get_expected_led_state
blink_interval_ms == 500
\* timeout argument of poll()
poll_timeout_ms == 100
\* <cstdlib>
EXIT_SUCCESS == 0
EXIT_FAILURE == 1

\* enum led_action_t
LED_ON == "LED_ON"
LED_OFF == "LED_OFF"
LED_BLINK == "LED_BLINK"
led_action_t == {LED_ON, LED_OFF, LED_BLINK}

----------------------------------------------------------------------------
(* Inputs *)

\* argument strings of set: the literals, and others differing in case,
\* whitespace, length
SetArgs == {"on", "off", "blink", "ON", " on", "off ", "bli", "blinks", ""}
SetReq(a) == [method |-> "set", arg |-> a]
GetReq == [method |-> "get", arg |-> ""]
NoReq == [method |-> "none", arg |-> ""]
\* the method calls the handlers are checked on (SetSpec)
AllRequests == {SetReq(a) : a \in SetArgs} \cup {GetReq}
\* the method calls clients send to the running daemon (Spec)
Requests == {SetReq(a) : a \in {"on", "off", "blink", "ON"}} \cup {GetReq}

\* clock values at daemon start
StartTimes == {0, 499}
\* time a poll() call may take: immediate return or the full timeout
PollWaits == {0, poll_timeout_ms}

BoolReply(b) == [type |-> "bool", b |-> b, s |-> ""]
StringReply(s) == [type |-> "string", b |-> FALSE, s |-> s]
NoReply == [type |-> "none", b |-> FALSE, s |-> ""]

----------------------------------------------------------------------------
(* Pure functions *)

\* C++ integer division of a by b > 0 (truncates toward zero)
cpp_div(a, b) == IF a >= 0 THEN a \div b ELSE -((-a) \div b)

\* C++ remainder matching cpp_div
cpp_mod(a, b) == a - b * cpp_div(a, b)

get_expected_led_state_odd(action, t, interval) ==
    IF action = LED_ON THEN TRUE
    ELSE IF action = LED_OFF THEN FALSE
    ELSE cpp_mod(cpp_div(t, interval), 2) = 1

\* get_expected_led_state, with the global led_action and the clock reading
\* as parameters
get_expected_led_state(action, t, interval) ==
    IF action = LED_ON THEN TRUE
    ELSE IF action = LED_OFF THEN FALSE
    ELSE cpp_mod(cpp_div(t, interval), 2) = 0

set_handler_prefix(action, cur) ==
    IF action = "on" THEN [led_action |-> LED_ON, result |-> TRUE]
    ELSE IF action = "off" THEN [led_action |-> LED_OFF, result |-> TRUE]
    ELSE IF action \in {"blink", "bli"} THEN [led_action |-> LED_BLINK, result |-> TRUE]
    ELSE [led_action |-> cur, result |-> FALSE]

\* the lambda registered for "set": the new led_action and the return value
set_handler(action, cur) ==
    IF action = "on" THEN [led_action |-> LED_ON, result |-> TRUE]
    ELSE IF action = "off" THEN [led_action |-> LED_OFF, result |-> TRUE]
    ELSE IF action = "blink" THEN [led_action |-> LED_BLINK, result |-> TRUE]
    ELSE [led_action |-> cur, result |-> FALSE]

get_handler_level(cur, level) ==
    IF cur = LED_ON THEN "on"
    ELSE IF cur = LED_OFF THEN "off"
    ELSE IF level THEN "on" ELSE "off"

\* the lambda registered for "get"; level is the pin level, which it ignores
get_handler(cur, level) ==
    IF cur = LED_ON THEN "on" ELSE IF cur = LED_OFF THEN "off" ELSE "blink"

\* index of the blink half-period a clock value lies in
HalfPeriod(t) == cpp_div(t, blink_interval_ms)

----------------------------------------------------------------------------
(* Initial state: main() has parsed "service", nothing is acquired *)

Init ==
    /\ pc = "connect"
    /\ led_action = LED_OFF
    /\ exit_requested = FALSE
    /\ expected_led_state = FALSE
    /\ revents_sig = FALSE
    /\ now \in StartTimes
    /\ pin \in BOOLEAN
    /\ line_state = "unrequested"
    /\ registered = FALSE
    /\ name_state = "unclaimed"
    /\ sigfd = "none"
    /\ pending = <<>>
    /\ sig_pending = FALSE
    /\ last_req = NoReq
    /\ last_reply = NoReply
    /\ exit_status = <<>>
    /\ last_accepted = "none"
    /\ writes_in_run = 0
    /\ redundant_write = FALSE
    /\ wrote = FALSE
    /\ effects = <<>>
    /\ failed_at = "none"
    /\ pin_at_exit = "none"
    /\ entered_loop = FALSE
    /\ drained_in_iter = FALSE
    /\ prev_now = 0
    /\ prev_level = FALSE

ghost_vars == <<last_accepted, writes_in_run, redundant_write, wrote, effects,
                pin_at_exit, entered_loop, drained_in_iter, prev_now, prev_level>>
loop_vars == <<led_action, exit_requested, expected_led_state, revents_sig, now,
               pending, sig_pending, last_req, last_reply>>
resource_vars == <<pin, line_state, registered, name_state, sigfd>>

\* a call throws: the exception leaves service() for the catch clause of main()
Throw(step) ==
    /\ pc' = "caught"
    /\ failed_at' = step


----------------------------------------------------------------------------
(* Startup of service(), lines 66-102.  Every library or system call of    *)
(* the startup either succeeds or throws.                                  *)

\* sdbus::createSystemBusConnection, sdbus::createObject
Connect ==
    /\ pc = "connect"
    /\ \E ok \in BOOLEAN :
         IF ok THEN pc' = "register" /\ UNCHANGED failed_at
               ELSE Throw("connect")
    /\ UNCHANGED <<loop_vars, resource_vars, exit_status, ghost_vars>>

\* registerMethod("set"), registerMethod("get"), finishRegistration
Register ==
    /\ pc = "register"
    /\ \E ok \in BOOLEAN :
         IF ok THEN pc' = "request_name" /\ registered' = TRUE /\ UNCHANGED failed_at
               ELSE Throw("register") /\ UNCHANGED registered
    /\ UNCHANGED <<loop_vars, pin, line_state, name_state, sigfd, exit_status,
                   ghost_vars>>

\* connection->requestName(serviceName)
RequestName ==
    /\ pc = "request_name"
    /\ \E ok \in BOOLEAN :
         IF ok THEN pc' = "open_chip" /\ name_state' = "claimed" /\ UNCHANGED failed_at
               ELSE Throw("request_name") /\ UNCHANGED name_state
    /\ UNCHANGED <<loop_vars, pin, line_state, registered, sigfd, exit_status,
                   ghost_vars>>

\* gpiod::chip chip(chipname); chip.get_line(line_num)
OpenChip ==
    /\ pc = "open_chip"
    /\ \E ok \in BOOLEAN :
         IF ok THEN pc' = "request_line" /\ UNCHANGED failed_at
               ELSE Throw("open_chip")
    /\ UNCHANGED <<loop_vars, resource_vars, exit_status, ghost_vars>>

RequestLine_ignoring_failure ==
    /\ pc = "request_line"
    /\ \E ok \in BOOLEAN :
         IF ok THEN line_state' = "requested" /\ pin' = FALSE
               ELSE UNCHANGED <<line_state, pin>>
    /\ pc' = "init_low"
    /\ UNCHANGED <<loop_vars, registered, name_state, sigfd, exit_status,
                   failed_at, ghost_vars>>

\* line.request({..., DIRECTION_OUTPUT}, 0): output line with default value 0
RequestLine ==
    /\ pc = "request_line"
    /\ \E ok \in BOOLEAN :
         IF ok THEN /\ pc' = "init_low"
                    /\ line_state' = "requested"
                    /\ pin' = FALSE
                    /\ UNCHANGED failed_at
               ELSE Throw("request_line") /\ UNCHANGED <<line_state, pin>>
    /\ UNCHANGED <<loop_vars, registered, name_state, sigfd, exit_status,
                   ghost_vars>>

\* line.set_value(0) before the loop
InitLow ==
    /\ pc = "init_low"
    /\ \E ok \in BOOLEAN :
         IF ok THEN pc' = "create_signalfd" /\ pin' = FALSE /\ UNCHANGED failed_at
               ELSE Throw("init_low") /\ UNCHANGED pin
    /\ UNCHANGED <<loop_vars, line_state, registered, name_state, sigfd,
                   exit_status, ghost_vars>>

\* create_signalfd(): sigprocmask(SIG_BLOCK) and signalfd(), PERROR on failure;
\* then bool exit_requested = false
create_signalfd ==
    /\ pc = "create_signalfd"
    /\ \E ok \in BOOLEAN :
         IF ok THEN pc' = "loop_test" /\ sigfd' = "open" /\ UNCHANGED failed_at
               ELSE Throw("create_signalfd") /\ UNCHANGED sigfd
    /\ exit_requested' = FALSE
    /\ UNCHANGED <<led_action, expected_led_state, revents_sig, now, pending,
                   sig_pending, last_req, last_reply, pin, line_state, registered,
                   name_state, exit_status, ghost_vars>>

----------------------------------------------------------------------------
(* Environment *)

\* a method call arrives on the connection (callers reach the daemon through
\* its well-known name)
Arrive ==
    /\ name_state = "claimed"
    /\ pc # "exited"
    /\ Len(pending) < MaxPending
    /\ \E r \in Requests : pending' = Append(pending, r)
    /\ UNCHANGED <<pc, led_action, exit_requested, expected_led_state, revents_sig,
                   now, sig_pending, last_req, last_reply, resource_vars,
                   exit_status, failed_at, ghost_vars>>

\* SIGINT or SIGTERM is sent: blocked by the mask of create_signalfd, it stays
\* pending and makes sigfd readable (nothing ever reads sigfd)
Signal ==
    /\ sigfd = "open"
    /\ pc # "exited"
    /\ ~sig_pending
    /\ sig_pending' = TRUE
    /\ UNCHANGED <<pc, led_action, exit_requested, expected_led_state, revents_sig,
                   now, pending, last_req, last_reply, resource_vars, exit_status,
                   failed_at, ghost_vars>>


----------------------------------------------------------------------------
(* The poll loop of service(), lines 104-122 *)

\* gpiod line.get_value() / set_value() take and return int: 0 or 1
level_int(b) == IF b THEN 1 ELSE 0

\* while (!exit_requested)
LoopTest ==
    /\ pc = "loop_test"
    /\ IF ~exit_requested
         THEN /\ pc' = "poll"
              /\ entered_loop' = TRUE
              /\ drained_in_iter' = FALSE
              /\ UNCHANGED <<effects, pin_at_exit>>
         ELSE /\ pc' = "close_sigfd"
              /\ effects' = Append(effects, "stop_polling")
              /\ pin_at_exit' = (IF pin THEN "high" ELSE "low")
              /\ UNCHANGED <<entered_loop, drained_in_iter>>
    /\ UNCHANGED <<loop_vars, resource_vars, exit_status, failed_at, last_accepted,
                   writes_in_run, redundant_write, wrote, prev_now, prev_level>>

Poll_retrying ==
    /\ pc = "poll"
    /\ \E ok \in BOOLEAN :
         IF ok
           THEN /\ \E d \in PollWaits :
                     /\ now + d <= MaxNow
                     /\ now' = now + d
                     /\ writes_in_run' =
                          (IF led_action = LED_BLINK /\ HalfPeriod(now + d) # HalfPeriod(now)
                             THEN 0 ELSE writes_in_run)
                /\ revents_sig' = sig_pending
                /\ UNCHANGED failed_at
           ELSE /\ failed_at' = "poll"
                /\ UNCHANGED <<now, revents_sig, writes_in_run>>
    /\ pc' = "check_sig"
    /\ UNCHANGED <<led_action, exit_requested, expected_led_state, pending,
                   sig_pending, last_req, last_reply, resource_vars, exit_status,
                   last_accepted, redundant_write, wrote, effects, pin_at_exit,
                   entered_loop, drained_in_iter, prev_now, prev_level>>

\* poll(fds, 2, 100): fails (PERROR throws), or returns after at most the
\* timeout with the signal descriptor's readiness in fds[1].revents
Poll ==
    /\ pc = "poll"
    /\ \E ok \in BOOLEAN :
         IF ok
           THEN /\ \E d \in PollWaits :
                     /\ now + d <= MaxNow
                     /\ now' = now + d
                     /\ writes_in_run' =
                          (IF led_action = LED_BLINK /\ HalfPeriod(now + d) # HalfPeriod(now)
                             THEN 0 ELSE writes_in_run)
                /\ revents_sig' = sig_pending
                /\ pc' = "check_sig"
                /\ UNCHANGED failed_at
           ELSE /\ Throw("poll")
                /\ UNCHANGED <<now, revents_sig, writes_in_run>>
    /\ UNCHANGED <<led_action, exit_requested, expected_led_state, pending,
                   sig_pending, last_req, last_reply, resource_vars, exit_status,
                   last_accepted, redundant_write, wrote, effects, pin_at_exit,
                   entered_loop, drained_in_iter, prev_now, prev_level>>

CheckSignal_exit_now ==
    /\ pc = "check_sig"
    /\ exit_requested' = (IF revents_sig THEN TRUE ELSE exit_requested)
    /\ pc' = (IF revents_sig THEN "loop_test" ELSE "drain")
    /\ UNCHANGED <<led_action, expected_led_state, revents_sig, now, pending,
                   sig_pending, last_req, last_reply, resource_vars, exit_status,
                   failed_at, ghost_vars>>

\* if (fds[1].revents & POLLIN) exit_requested = true;
CheckSignal ==
    /\ pc = "check_sig"
    /\ exit_requested' = (IF revents_sig THEN TRUE ELSE exit_requested)
    /\ pc' = "drain"
    /\ UNCHANGED <<led_action, expected_led_state, revents_sig, now, pending,
                   sig_pending, last_req, last_reply, resource_vars, exit_status,
                   failed_at, ghost_vars>>

\* the connection dispatches one request to its handler and sends the reply
Dispatch(r) ==
    IF r.method = "set"
      THEN LET res == set_handler(r.arg, led_action) IN
           /\ led_action' = res.led_action
           /\ last_reply' = BoolReply(res.result)
           /\ last_accepted' = (IF res.result THEN r.arg ELSE last_accepted)
           /\ writes_in_run' = (IF res.led_action # led_action THEN 0 ELSE writes_in_run)
      ELSE /\ last_reply' = StringReply(get_handler(led_action, pin))
           /\ UNCHANGED <<led_action, last_accepted, writes_in_run>>

\* one evaluation of the condition of while (connection->processPendingRequest()):
\* a pending request is handled and the loop goes on, or none is left
processPendingRequest ==
    /\ pc = "drain"
    /\ IF pending # <<>>
         THEN /\ Dispatch(Head(pending))
              /\ last_req' = Head(pending)
              /\ pending' = Tail(pending)
              /\ drained_in_iter' = TRUE
              /\ pc' = "drain"
         ELSE /\ pc' = "update"
              /\ UNCHANGED <<led_action, last_reply, last_accepted, writes_in_run,
                             last_req, pending, drained_in_iter>>
    /\ UNCHANGED <<exit_requested, expected_led_state, revents_sig, now, sig_pending,
                   resource_vars, exit_status, failed_at, redundant_write, wrote,
                   effects, pin_at_exit, entered_loop, prev_now, prev_level>>

UpdatePin_always_write ==
    /\ pc = "update"
    /\ LET e == get_expected_led_state(led_action, now, blink_interval_ms) IN
         /\ expected_led_state' = e
         /\ pin' = e
         /\ wrote' = TRUE
         /\ writes_in_run' = (IF writes_in_run < WriteCap THEN writes_in_run + 1
                                                        ELSE writes_in_run)
         /\ redundant_write' = (redundant_write \/ pin = e)
    /\ pc' = "loop_test"
    /\ UNCHANGED <<led_action, exit_requested, revents_sig, now, pending, sig_pending,
                   last_req, last_reply, line_state, registered, name_state, sigfd,
                   exit_status, failed_at, last_accepted, effects, pin_at_exit,
                   entered_loop, drained_in_iter, prev_now, prev_level>>

UpdatePin_only_raise ==
    /\ pc = "update"
    /\ LET e == get_expected_led_state(led_action, now, blink_interval_ms) IN
         /\ expected_led_state' = e
         /\ IF e /\ level_int(pin) # level_int(e)
              THEN /\ pin' = e
                   /\ wrote' = TRUE
                   /\ writes_in_run' = (IF writes_in_run < WriteCap
                                          THEN writes_in_run + 1 ELSE writes_in_run)
                   /\ redundant_write' = (redundant_write \/ pin = e)
              ELSE /\ wrote' = FALSE
                   /\ UNCHANGED <<pin, writes_in_run, redundant_write>>
    /\ pc' = "loop_test"
    /\ UNCHANGED <<led_action, exit_requested, revents_sig, now, pending, sig_pending,
                   last_req, last_reply, line_state, registered, name_state, sigfd,
                   exit_status, failed_at, last_accepted, effects, pin_at_exit,
                   entered_loop, drained_in_iter, prev_now, prev_level>>

\* auto expected_led_state = get_expected_led_state();
\* if (line.get_value() != expected_led_state) line.set_value(expected_led_state);
UpdatePin ==
    /\ pc = "update"
    /\ LET e == get_expected_led_state(led_action, now, blink_interval_ms) IN
         /\ expected_led_state' = e
         /\ IF level_int(pin) # level_int(e)
              THEN /\ pin' = e
                   /\ wrote' = TRUE
                   /\ writes_in_run' = (IF writes_in_run < WriteCap
                                          THEN writes_in_run + 1 ELSE writes_in_run)
                   /\ redundant_write' = (redundant_write \/ pin = e)
              ELSE /\ wrote' = FALSE
                   /\ UNCHANGED <<pin, writes_in_run, redundant_write>>
    /\ pc' = "loop_test"
    /\ UNCHANGED <<led_action, exit_requested, revents_sig, now, pending, sig_pending,
                   last_req, last_reply, line_state, registered, name_state, sigfd,
                   exit_status, failed_at, last_accepted, effects, pin_at_exit,
                   entered_loop, drained_in_iter, prev_now, prev_level>>

----------------------------------------------------------------------------
(* Cleanup of service(), lines 124-131, and the end of main() *)

\* close(sigfd)
CloseSigfd ==
    /\ pc = "close_sigfd"
    /\ sigfd' = "closed"
    /\ pc' = "force_low"
    /\ UNCHANGED <<loop_vars, pin, line_state, registered, name_state, exit_status,
                   failed_at, ghost_vars>>

ForceLow_skipped ==
    /\ pc = "force_low"
    /\ pc' = "release_line"
    /\ UNCHANGED <<loop_vars, resource_vars, exit_status, failed_at, ghost_vars>>

ForceLow_after_release ==
    /\ pc = "force_low"
    /\ line_state' = "released"
    /\ pin' = FALSE
    /\ effects' = Append(Append(effects, "line_released"), "pin_low")
    /\ pc' = "release_name"
    /\ UNCHANGED <<loop_vars, registered, name_state, sigfd, exit_status,
                   failed_at, last_accepted, writes_in_run, redundant_write, wrote,
                   pin_at_exit, entered_loop, drained_in_iter, prev_now, prev_level>>

\* line.set_value(0) after the loop
ForceLow ==
    /\ pc = "force_low"
    /\ pin' = FALSE
    /\ effects' = Append(effects, "pin_low")
    /\ pc' = "release_line"
    /\ UNCHANGED <<loop_vars, line_state, registered, name_state, sigfd, exit_status,
                   failed_at, last_accepted, writes_in_run, redundant_write, wrote,
                   pin_at_exit, entered_loop, drained_in_iter, prev_now, prev_level>>

\* line.release()
ReleaseLine ==
    /\ pc = "release_line"
    /\ line_state' = "released"
    /\ effects' = Append(effects, "line_released")
    /\ pc' = "release_name"
    /\ UNCHANGED <<loop_vars, pin, registered, name_state, sigfd, exit_status,
                   failed_at, last_accepted, writes_in_run, redundant_write, wrote,
                   pin_at_exit, entered_loop, drained_in_iter, prev_now, prev_level>>

\* connection->releaseName(serviceName)
ReleaseName ==
    /\ pc = "release_name"
    /\ name_state' = "released"
    /\ effects' = Append(effects, "name_released")
    /\ pc' = "return"
    /\ UNCHANGED <<loop_vars, pin, line_state, registered, sigfd, exit_status,
                   failed_at, last_accepted, writes_in_run, redundant_write, wrote,
                   pin_at_exit, entered_loop, drained_in_iter, prev_now, prev_level>>

\* return EXIT_SUCCESS; main() returns what service() returned
Return ==
    /\ pc = "return"
    /\ exit_status' = <<EXIT_SUCCESS>>
    /\ pc' = "exited"
    /\ UNCHANGED <<loop_vars, resource_vars, failed_at, ghost_vars>>

\* catch (const std::exception& err) of main(), then return EXIT_FAILURE
Catch ==
    /\ pc = "caught"
    /\ exit_status' = <<EXIT_FAILURE>>
    /\ pc' = "exited"
    /\ UNCHANGED <<loop_vars, resource_vars, failed_at, ghost_vars>>

Next ==
    \/ Connect
    \/ Register
    \/ RequestName
    \/ OpenChip
    \/ RequestLine
    \/ InitLow
    \/ create_signalfd
    \/ Arrive
    \/ Signal
    \/ LoopTest
    \/ Poll
    \/ CheckSignal
    \/ processPendingRequest
    \/ UpdatePin
    \/ CloseSigfd
    \/ ForceLow
    \/ ReleaseLine
    \/ ReleaseName
    \/ Return
    \/ Catch

Spec == Init /\ [][Next]_vars


----------------------------------------------------------------------------
(* The waveform function on its own: get_expected_led_state() called at    *)
(* one clock value and again after the clock has advanced.                 *)

\* clock advances between two evaluations
EvalSteps == {0, 1, 499, 500, 501}

EvalInit ==
    /\ pc = "eval"
    /\ led_action \in led_action_t
    /\ now \in 0..MaxEvalTime
    /\ exit_requested = FALSE
    /\ expected_led_state = FALSE
    /\ revents_sig = FALSE
    /\ pin = FALSE
    /\ line_state = "unrequested"
    /\ registered = FALSE
    /\ name_state = "unclaimed"
    /\ sigfd = "none"
    /\ pending = <<>>
    /\ sig_pending = FALSE
    /\ last_req = NoReq
    /\ last_reply = NoReply
    /\ exit_status = <<>>
    /\ last_accepted = "none"
    /\ writes_in_run = 0
    /\ redundant_write = FALSE
    /\ wrote = FALSE
    /\ effects = <<>>
    /\ failed_at = "none"
    /\ pin_at_exit = "none"
    /\ entered_loop = FALSE
    /\ drained_in_iter = FALSE
    /\ prev_now = 0
    /\ prev_level = FALSE

eval_fixed == <<led_action, exit_requested, revents_sig, pin, line_state, registered,
                name_state, sigfd, pending, sig_pending, last_req, last_reply,
                exit_status, last_accepted, writes_in_run, redundant_write, wrote,
                effects, failed_at, pin_at_exit, entered_loop, drained_in_iter>>

\* expected_led_state = get_expected_led_state() at the current clock value
Evaluate ==
    /\ pc \in {"eval", "eval_again"}
    /\ expected_led_state' = get_expected_led_state(led_action, now, blink_interval_ms)
    /\ pc' = (IF pc = "eval" THEN "evaluated" ELSE "evaluated_again")
    /\ UNCHANGED <<now, prev_now, prev_level, eval_fixed>>

\* the clock advances; the evaluation made so far is kept for comparison
Advance ==
    /\ pc \in {"evaluated", "evaluated_again"}
    /\ \E d \in EvalSteps :
         /\ now + d <= MaxEvalTime
         /\ now' = now + d
    /\ prev_now' = now
    /\ prev_level' = expected_led_state
    /\ pc' = "eval_again"
    /\ UNCHANGED <<expected_led_state, eval_fixed>>

EvalNext ==
    \/ Evaluate
    \/ Advance

EvalSpec == EvalInit /\ [][EvalNext]_vars


----------------------------------------------------------------------------
(* The handlers on their own: the daemon is in the drain of a loop          *)
(* iteration, with any commanded action and any requests queued.           *)

\* the non-empty request queues of at most MaxPending requests
Queues == UNION {[1..n -> AllRequests] : n \in 1..MaxPending}

SetInit ==
    /\ pc = "drain"
    /\ led_action \in led_action_t
    /\ pending \in Queues
    /\ pin \in BOOLEAN
    /\ last_accepted \in (IF led_action = LED_ON THEN {"on"}
                          ELSE IF led_action = LED_BLINK THEN {"blink"}
                          ELSE {"none", "off"})
    /\ exit_requested = FALSE
    /\ expected_led_state = pin
    /\ revents_sig = FALSE
    /\ now \in StartTimes
    /\ line_state = "requested"
    /\ registered = TRUE
    /\ name_state = "claimed"
    /\ sigfd = "open"
    /\ sig_pending = FALSE
    /\ last_req = NoReq
    /\ last_reply = NoReply
    /\ exit_status = <<>>
    /\ writes_in_run = 0
    /\ redundant_write = FALSE
    /\ wrote = FALSE
    /\ effects = <<>>
    /\ failed_at = "none"
    /\ pin_at_exit = "none"
    /\ entered_loop = TRUE
    /\ drained_in_iter = FALSE
    /\ prev_now = 0
    /\ prev_level = FALSE

SetNext == processPendingRequest

SetSpec == SetInit /\ [][SetNext]_vars

----------------------------------------------------------------------------
(* Properties *)

LoopPcs == {"loop_test", "poll", "check_sig", "drain", "update"}
StartupSteps == {"connect", "register", "request_name", "open_chip",
                 "request_line", "init_low", "create_signalfd"}
ShutdownOrder == <<"stop_polling", "pin_low", "line_released", "name_released">>
IsPrefix(s, t) == Len(s) <= Len(t) /\ SubSeq(t, 1, Len(s)) = s

\* the waveform as the specification words it: true exactly when the index k
\* of the half-period [k*500, (k+1)*500) holding t is even
InHalfPeriod(t, k) ==
    k * blink_interval_ms <= t /\ t < (k + 1) * blink_interval_ms
HalfPeriods(t) == {k \in 0..t : InHalfPeriod(t, k)}
BlinkLevel(t) == \E k \in HalfPeriods(t) : k % 2 = 0
ImpliedLevel(action, t) ==
    IF action = LED_ON THEN TRUE
    ELSE IF action = LED_OFF THEN FALSE
    ELSE BlinkLevel(t)

\* the step in which processPendingRequest handles the request at the head
HandlesHead == pc = "drain" /\ pending # <<>> /\ pending' = Tail(pending)

\* C1: a get returns the string of the last accepted set, "off" when none was
\* accepted since the start, and "blink" during Blink whatever the pin level
C1_GetReturnsLastAccepted ==
    last_req = GetReq =>
        /\ last_reply = StringReply(IF last_accepted = "none" THEN "off"
                                                                ELSE last_accepted)
        /\ last_accepted \in {"none", "on", "off", "blink"}
        /\ led_action = LED_BLINK => last_reply.s = "blink"

C1_Witness ==
    /\ last_req = GetReq
    /\ last_accepted = "blink"
    /\ last_reply = StringReply("blink")
    /\ pin = TRUE
    /\ pc = "drain"

\* C2: set returns true and assigns the action for exactly "on", "off" and
\* "blink"; for any other argument it returns false and leaves led_action, and
\* so the answer of a following get, unchanged
C2_SetAcceptsExactlyLiterals ==
    [][(HandlesHead /\ Head(pending).method = "set") =>
         LET a == Head(pending).arg IN
         /\ a = "on" => led_action' = LED_ON /\ last_reply' = BoolReply(TRUE)
         /\ a = "off" => led_action' = LED_OFF /\ last_reply' = BoolReply(TRUE)
         /\ a = "blink" => led_action' = LED_BLINK /\ last_reply' = BoolReply(TRUE)
         /\ a \notin {"on", "off", "blink"} =>
              /\ last_reply' = BoolReply(FALSE)
              /\ led_action' = led_action
              /\ get_handler(led_action', pin') = get_handler(led_action, pin)]_vars

C2_Witness ==
    /\ last_req = SetReq("bli")
    /\ last_reply = BoolReply(FALSE)
    /\ led_action = LED_BLINK
    /\ pending = <<GetReq>>

\* C3: the level is true for On, false for Off, and for Blink true exactly when
\* the half-period containing t has an even index; two times of one half-period
\* agree and t, t + 500 differ
C3_Waveform ==
    /\ pc \in {"evaluated", "evaluated_again"} =>
         expected_led_state = ImpliedLevel(led_action, now)
    /\ (pc = "evaluated_again" /\ led_action = LED_BLINK) =>
         /\ (\E k \in HalfPeriods(now) : InHalfPeriod(prev_now, k)) =>
              expected_led_state = prev_level
         /\ now = prev_now + blink_interval_ms => expected_led_state # prev_level
    /\ (pc = "evaluated_again" /\ led_action = LED_ON) =>
         expected_led_state /\ prev_level
    /\ (pc = "evaluated_again" /\ led_action = LED_OFF) =>
         ~expected_led_state /\ ~prev_level

C3_Witness ==
    /\ pc = "evaluated_again"
    /\ led_action = LED_BLINK
    /\ prev_now = 500
    /\ now = 1000
    /\ prev_level = FALSE
    /\ expected_led_state = TRUE

\* C4: at the end of every loop iteration the pin has the level implied by the
\* commanded action at the clock value read in that iteration
C4_PinConverges ==
    pc = "loop_test" =>
        /\ pin = ImpliedLevel(led_action, now)
        /\ entered_loop => pin = expected_led_state

C4_Witness ==
    /\ pc = "loop_test"
    /\ drained_in_iter
    /\ last_req = SetReq("off")
    /\ led_action = LED_OFF
    /\ wrote
    /\ pin = FALSE

\* C5: the loop never re-writes the level the line already has: at most one
\* write while the action stays the same and, under Blink, per half-period
C5_NoRedundantWrite ==
    /\ ~redundant_write
    /\ writes_in_run <= 1

C5_Witness ==
    /\ pc = "loop_test"
    /\ entered_loop
    /\ ~wrote
    /\ led_action = LED_BLINK
    /\ writes_in_run = 1
    /\ pin = TRUE

\* C6: once the signal has been seen the shutdown effects happen once each in
\* the order stop polling, pin low, line released, name released, and after
\* the pin was forced low nothing polls, handles a request or writes the pin
C6_ShutdownOrder ==
    /\ IsPrefix(effects, ShutdownOrder)
    /\ effects # <<>> => exit_requested
    /\ (pc = "exited" /\ exit_requested) => effects = ShutdownOrder
    /\ Len(effects) >= 2 =>
         /\ pc \in {"release_line", "release_name", "return", "exited"}
         /\ pin = FALSE
         /\ sigfd = "closed"

C6_Witness ==
    /\ pc = "exited"
    /\ led_action = LED_BLINK
    /\ effects = ShutdownOrder
    /\ line_state = "released"
    /\ name_state = "released"

\* C7: when the daemon has exited on a termination signal the pin is low
C7_FinalPinLow ==
    (pc \in {"return", "exited"} /\ exit_requested) => pin = FALSE

C7_Witness ==
    /\ pc = "exited"
    /\ exit_requested
    /\ drained_in_iter
    /\ last_req = SetReq("blink")
    /\ led_action = LED_BLINK
    /\ pin_at_exit = "high"
    /\ pin = FALSE

\* C8: the loop runs only with the interface registered, the name claimed, the
\* line requested and the signal descriptor open; after a failed startup step
\* the loop is never entered, no request is handled and the exit status is 1
C8_StartupAllOrNothing ==
    /\ pc \in LoopPcs =>
         /\ registered
         /\ name_state = "claimed"
         /\ line_state = "requested"
         /\ sigfd = "open"
         /\ failed_at = "none"
    /\ failed_at \in StartupSteps =>
         /\ ~entered_loop
         /\ last_req = NoReq
         /\ pc \in {"caught", "exited"}
         /\ pc = "exited" => exit_status = <<EXIT_FAILURE>>

C8_Witness ==
    /\ failed_at = "request_line"
    /\ pc = "exited"
    /\ name_state = "claimed"
    /\ pending # <<>>
    /\ exit_status = <<EXIT_FAILURE>>

\* C9: exit_requested becomes true only when the signal descriptor was ready,
\* never becomes false again, and the iteration that set it still drains the
\* requests and updates the pin before the loop ends without another poll
C9_ExitAfterIteration ==
    /\ [](exit_requested => pc \notin {"poll", "check_sig"})
    /\ []((exit_requested /\ pc = "loop_test") =>
            pin = ImpliedLevel(led_action, now))
    /\ [][/\ exit_requested => exit_requested'
          /\ (~exit_requested /\ exit_requested') =>
               (pc = "check_sig" /\ revents_sig /\ pc' = "drain")
          /\ (exit_requested /\ pc = "drain" /\ pc' # "drain") =>
               (pending = <<>> /\ pc' = "update")
          /\ (exit_requested /\ HandlesHead) =>
               (last_req' = Head(pending) /\ last_reply'.type # "none")
          /\ (exit_requested /\ pc = "update" /\ pc' # "update") =>
               pc' = "loop_test"
          /\ (exit_requested /\ pc = "loop_test" /\ pc' # "loop_test") =>
               pc' = "close_sigfd"]_vars

C9_Witness ==
    /\ exit_requested
    /\ pc = "loop_test"
    /\ drained_in_iter
    /\ last_req = SetReq("on")
    /\ last_reply = BoolReply(TRUE)
    /\ wrote
    /\ pin = TRUE

\* C10: a failed poll() ends the loop at once: no request is handled, the pin
\* is not written, no shutdown step runs, and the exit status is 1
C10_PollFailureFatal ==
    /\ [](failed_at = "poll" =>
            /\ pc \in {"caught", "exited"}
            /\ effects = <<>>
            /\ ~exit_requested
            /\ pc = "exited" => exit_status = <<EXIT_FAILURE>>)
    /\ [][failed_at' = "poll" =>
            /\ pin' = pin
            /\ last_req' = last_req
            /\ last_reply' = last_reply
            /\ led_action' = led_action
            /\ effects' = effects]_vars

C10_Witness ==
    /\ failed_at = "poll"
    /\ pc = "exited"
    /\ pin = TRUE
    /\ pending # <<>>
    /\ exit_status = <<EXIT_FAILURE>>

============================================================================
